---------------------------- MODULE Spec2Model ----------------------------
(***************************************************************************)
(* Thread scheduler core of PintOS (src/threads/thread.c): thread states,  *)
(* the ready / sleeping / all-threads lists, priority scheduling with      *)
(* priority donation, the MLFQS engine and the sleep queue.                *)
(*                                                                         *)
(* Every C function is an operator from a kernel-state record to a         *)
(* kernel-state record, so that a handler that calls other functions       *)
(* (thread_create calls thread_unblock and thread_yield, thread_yield      *)
(* calls schedule, ...) is the composition of their operators.  The        *)
(* variables are the fields of that record; an action applies one          *)
(* operation to the current state.                                         *)
(***************************************************************************)
EXTENDS Integers, Sequences, FiniteSets, TLC

\* ------------------------------------------------------------------ bounds
\* Thread ids run 1..MaxThreads: palloc_get_page() fails once they are used up.
MaxThreads == 4
\* In MLFQS mode the pages run out after MaxMlfqsThreads threads.
MaxMlfqsThreads == 3
\* The timer stops ticking after MaxTicks ticks.
MaxTicks == 4

\* --------------------------------------------------------------- constants
PRI_MIN == 0
PRI_DEFAULT == 31
PRI_MAX == 63
TIME_SLICE == 4
\* Ticks per second (devices/timer.h).
TIMER_FREQ == 100
\* 17.14 fixed point: one unit of struct real.
F == 16384

NULL == 0
Tids == 1..MaxThreads
initial_thread == 1
Locks == {1}
NoLock == 0

\* Arguments the callers pass.
PriorityModeArgs == {1, 5}
MlfqsModeArgs == {1, PRI_MAX}
NiceArgs == {0, 1}
SleepArgs == {2}

VARIABLES
  thread_mlfqs,     \* bool thread_mlfqs: fixed at boot
  status,           \* t->status, "UNUSED" for a page never allocated
  priority,         \* t->priority: the effective priority
  real_priority,    \* t->real_priority: the base priority
  nice,             \* t->nice
  recent_cpu,       \* t->recent_cpu (fixed point)
  waik_up_time,     \* t->waik_up_time
  Owned_locks,      \* t->Owned_locks
  Waited_on_lock,   \* t->Waited_on_lock
  ready_list,       \* ready_list, front first
  all_list,         \* all_list
  sleeping_list,    \* sleeping_list, front first
  idle_thread,      \* idle_thread, NULL until idle() has run
  cur,              \* running_thread(): the thread whose stack is active
  thread_ticks,     \* thread_ticks
  next_tid,         \* allocate_tid()'s static next_tid
  load_avg,         \* load_avg (fixed point)
  ticks,            \* timer_ticks()
  intr_level,       \* intr_get_level(): "ON" or "OFF"
  in_intr,          \* intr_context()
  yield_on_return,  \* set by intr_yield_on_return()
  resume_level,     \* interrupt level a suspended thread restores when resumed
  holder,           \* lock->holder
  lock_max,         \* lock->Waiting_threads_max_priority
  freed,            \* pages given back by palloc_free_page()
  panic,            \* an ASSERT has failed: the kernel has stopped
  op                \* the last operation performed, with its arguments

kvars == <<thread_mlfqs, status, priority, real_priority, nice, recent_cpu,
           waik_up_time, Owned_locks, Waited_on_lock, ready_list, all_list,
           sleeping_list, idle_thread, cur, thread_ticks, next_tid, load_avg,
           ticks, intr_level, in_intr, yield_on_return, resume_level, holder,
           lock_max, freed, panic>>
vars == <<kvars, op>>

\* The kernel state as one record.
K == [thread_mlfqs |-> thread_mlfqs, status |-> status, priority |-> priority,
      real_priority |-> real_priority, nice |-> nice, recent_cpu |-> recent_cpu,
      waik_up_time |-> waik_up_time, Owned_locks |-> Owned_locks,
      Waited_on_lock |-> Waited_on_lock, ready_list |-> ready_list,
      all_list |-> all_list, sleeping_list |-> sleeping_list,
      idle_thread |-> idle_thread, cur |-> cur, thread_ticks |-> thread_ticks,
      next_tid |-> next_tid, load_avg |-> load_avg, ticks |-> ticks,
      intr_level |-> intr_level, in_intr |-> in_intr,
      yield_on_return |-> yield_on_return, resume_level |-> resume_level,
      holder |-> holder, lock_max |-> lock_max, freed |-> freed, panic |-> panic]

\* The next state is the record S.
Apply(S) ==
  /\ thread_mlfqs' = S.thread_mlfqs /\ status' = S.status
  /\ priority' = S.priority /\ real_priority' = S.real_priority
  /\ nice' = S.nice /\ recent_cpu' = S.recent_cpu
  /\ waik_up_time' = S.waik_up_time /\ Owned_locks' = S.Owned_locks
  /\ Waited_on_lock' = S.Waited_on_lock /\ ready_list' = S.ready_list
  /\ all_list' = S.all_list /\ sleeping_list' = S.sleeping_list
  /\ idle_thread' = S.idle_thread /\ cur' = S.cur
  /\ thread_ticks' = S.thread_ticks /\ next_tid' = S.next_tid
  /\ load_avg' = S.load_avg /\ ticks' = S.ticks
  /\ intr_level' = S.intr_level /\ in_intr' = S.in_intr
  /\ yield_on_return' = S.yield_on_return /\ resume_level' = S.resume_level
  /\ holder' = S.holder /\ lock_max' = S.lock_max /\ freed' = S.freed
  /\ panic' = S.panic

\* A failed ASSERT: the kernel panics in the state it has reached.
Panic(S) == [S EXCEPT !.panic = TRUE]

\* ------------------------------------------------------------- arithmetic
Abs(x) == IF x < 0 THEN -x ELSE x
\* C integer division truncates toward zero.
CDiv(a, b) == IF (a < 0) = (b < 0) THEN Abs(a) \div Abs(b) ELSE -(Abs(a) \div Abs(b))
MaxOf(s, d) == IF s = {} THEN d ELSE CHOOSE x \in s : \A y \in s : y <= x
MinOf(s) == CHOOSE x \in s : \A y \in s : x <= y

\* struct real: the value times F.
int_to_real(n) == n * F
real_to_int_toward_nearest(x) == IF x >= 0 THEN CDiv(x + F \div 2, F) ELSE CDiv(x - F \div 2, F)
add(x, y) == x + y
\* Quotient and remainder of a * b by c for naturals a < c and b, by halving b:
\* the product itself does not fit 32 bits; C forms it in 64 bits.
RECURSIVE quot_rem(_, _, _)
quot_rem(a, b, c) ==
  IF b = 0 THEN <<0, 0>>
  ELSE LET h == quot_rem(a, b \div 2, c)
           t == 2 * h[2] + (b % 2) * a
       IN <<2 * h[1] + t \div c, t % c>>
\* a * b / c as C computes it in 64 bits, truncating toward zero.
mul_div(a, b, c) ==
  LET q == (Abs(a) \div Abs(c)) * Abs(b) + quot_rem(Abs(a) % Abs(c), Abs(b), Abs(c))[1]
  IN IF ((a < 0) = (b < 0)) = (c > 0) THEN q ELSE -q
multiply(x, y) == mul_div(x, y, F)
divide(x, y) == mul_div(x, F, y)
multiply_by_int(x, n) == x * n
divide_by_int(x, n) == CDiv(x, n)
add_real_to_int(x, n) == x + n * F

\* ------------------------------------------------------------------ lists
\* A comparison that also holds between equal priorities.
ComparePriority_or_equal(S, a, b) == S.priority[a] >= S.priority[b]

\* ComparePriority: the list_less_func of the ready list.
ComparePriority(S, a, b) == S.priority[a] > S.priority[b]

\* A comparison that puts the later deadline first.
thread_less_waik_later(S, a, b) == S.waik_up_time[a] > S.waik_up_time[b]

\* thread_less_waik: the list_less_func of the sleeping list.
thread_less_waik(S, a, b) == S.waik_up_time[a] < S.waik_up_time[b]

\* A call of the list_less_func cmp.
less(S, cmp, a, b) ==
  IF cmp = "ComparePriority" THEN ComparePriority(S, a, b) ELSE thread_less_waik(S, a, b)

\* list_insert_ordered: before the first element e with less(x, e), else at the back.
list_insert_ordered(l, x, S, cmp) ==
  LET idx == {i \in 1..Len(l) : less(S, cmp, x, l[i])}
      k == IF idx = {} THEN Len(l) + 1 ELSE MinOf(idx)
  IN SubSeq(l, 1, k - 1) \o <<x>> \o SubSeq(l, k, Len(l))

\* list_remove
list_remove(l, x) == SelectSeq(l, LAMBDA e : e # x)

\* list_sort is a stable merge sort: the result is what inserting the elements
\* one after another, each behind its equals, gives.
RECURSIVE list_sort_into(_, _, _, _)
list_sort_into(done, rest, S, cmp) ==
  IF rest = <<>> THEN done
  ELSE list_sort_into(list_insert_ordered(done, Head(rest), S, cmp), Tail(rest), S, cmp)

list_sort(l, S, cmp) == list_sort_into(<<>>, l, S, cmp)

Range(l) == {l[i] : i \in 1..Len(l)}

\* -------------------------------------------------------------- interrupts
intr_disable(S) == [S EXCEPT !.intr_level = "OFF"]

intr_set_level(S, level) == [S EXCEPT !.intr_level = level]

\* ---------------------------------------------------------------- dispatch
running_thread(S) == S.cur

thread_current(S) == running_thread(S)

\* A choice of the back of the ready list.
next_thread_to_run_last(S) ==
  IF S.ready_list = <<>> THEN S.idle_thread ELSE S.ready_list[Len(S.ready_list)]

\* The thread next_thread_to_run() returns.
next_thread_to_run(S) ==
  IF S.ready_list = <<>> THEN S.idle_thread ELSE Head(S.ready_list)

\* The ready list after next_thread_to_run(): list_pop_front.
list_pop_front(l) == IF l = <<>> THEN l ELSE Tail(l)

\* switch_threads(cur, next): next's stack becomes the active one.
switch_threads(S, next) == [S EXCEPT !.cur = next]

\* A finalization that gives back the page of any dying thread, the initial
\* thread's too.
thread_schedule_tail_free_any(S, prev) ==
  IF S.intr_level # "OFF" THEN Panic(S)
  ELSE LET S1 == [S EXCEPT !.status[running_thread(S)] = "RUNNING", !.thread_ticks = 0]
       IN IF prev # NULL /\ S1.status[prev] = "DYING"
          THEN [S1 EXCEPT !.freed = @ \cup {prev}]
          ELSE S1

\* A finalization that forgets to mark the thread it runs on as running.
thread_schedule_tail_no_mark(S, prev) ==
  IF S.intr_level # "OFF" THEN Panic(S)
  ELSE LET S1 == [S EXCEPT !.thread_ticks = 0]
       IN IF prev # NULL /\ S1.status[prev] = "DYING" /\ prev # initial_thread
          THEN [S1 EXCEPT !.freed = @ \cup {prev}]
          ELSE S1

thread_schedule_tail(S, prev) ==
  IF S.intr_level # "OFF" THEN Panic(S)
  ELSE LET S1 == [S EXCEPT !.status[running_thread(S)] = "RUNNING", !.thread_ticks = 0]
       IN IF prev # NULL /\ S1.status[prev] = "DYING" /\ prev # initial_thread
          THEN [S1 EXCEPT !.freed = @ \cup {prev}]
          ELSE S1

\* The thread that schedule() leaves running goes on where it was suspended:
\* it restores the interrupt level its own suspended call had saved; a thread
\* dispatched for the first time enters kernel_thread(), which enables
\* interrupts; the idle thread goes on with "sti; hlt".
resume(S) ==
  IF S.panic THEN S
  ELSE [S EXCEPT !.intr_level =
          IF S.cur = S.idle_thread THEN "ON" ELSE S.resume_level[S.cur]]

schedule(S) ==
  LET c == running_thread(S)
      next == next_thread_to_run(S)
      S1 == [S EXCEPT !.ready_list = list_pop_front(@)]
  IN IF S1.intr_level # "OFF" \/ S1.status[c] = "RUNNING" \/ next = NULL
     THEN Panic(S1)
     ELSE IF c # next
          THEN resume(thread_schedule_tail(switch_threads(S1, next), c))
          ELSE resume(thread_schedule_tail(S1, NULL))

thread_block(S) ==
  IF S.in_intr \/ S.intr_level # "OFF" THEN Panic(S)
  ELSE schedule([S EXCEPT !.status[thread_current(S)] = "BLOCKED",
                          !.resume_level[thread_current(S)] = "OFF"])

thread_yield(S) ==
  LET c == thread_current(S)
      old_level == S.intr_level
      S1 == intr_disable(S)
      S2 == IF c # S1.idle_thread
            THEN [S1 EXCEPT !.ready_list = list_insert_ordered(@, c, S1, "ComparePriority")]
            ELSE S1
  IN IF S.in_intr THEN Panic(S)
     ELSE schedule([S2 EXCEPT !.status[c] = "READY", !.resume_level[c] = old_level])

thread_exit(S) ==
  LET c == thread_current(S)
      S1 == intr_disable(S)
  IN IF S.in_intr THEN Panic(S)
     ELSE schedule([S1 EXCEPT !.all_list = @ \ {c}, !.status[c] = "DYING"])

\* A thread_unblock that yields to the thread it wakes when that one outranks
\* the running thread.
thread_unblock_preempt(S, t) ==
  LET old_level == S.intr_level
      S1 == intr_disable(S)
      S2 == intr_set_level(
              [S1 EXCEPT !.ready_list = list_insert_ordered(@, t, S1, "ComparePriority"),
                         !.status[t] = "READY"],
              old_level)
  IN IF S1.status[t] # "BLOCKED" THEN Panic(S1)
     ELSE IF ~S2.in_intr /\ S2.priority[t] > S2.priority[thread_current(S2)]
          THEN thread_yield(S2)
          ELSE S2

thread_unblock(S, t) ==
  LET old_level == S.intr_level
      S1 == intr_disable(S)
  IN IF S1.status[t] # "BLOCKED" THEN Panic(S1)
     ELSE intr_set_level(
            [S1 EXCEPT !.ready_list = list_insert_ordered(@, t, S1, "ComparePriority"),
                       !.status[t] = "READY"],
            old_level)

\* ---------------------------------------------------------------- priority
\* The largest Waiting_threads_max_priority among the locks t owns: the front
\* of Owned_locks after list_sort(&t->Owned_locks, lock_cmp_priority).
front_lock_priority(S, t) == MaxOf({S.lock_max[l] : l \in S.Owned_locks[t]}, PRI_MIN)

\* A recomputation that never lowers the priority.
thread_update_priority_keep(S, t) ==
  LET real == S.real_priority[t]
      lock_pri == front_lock_priority(S, t)
      max_pri == IF S.Owned_locks[t] # {} /\ real < lock_pri THEN lock_pri ELSE real
  IN [S EXCEPT !.priority[t] = IF @ > max_pri THEN @ ELSE max_pri]

thread_update_priority(S, t) ==
  LET old_level == S.intr_level
      S1 == intr_disable(S)
      real == S1.real_priority[t]
      max_pri == IF S1.Owned_locks[t] # {} /\ real < front_lock_priority(S1, t)
                 THEN front_lock_priority(S1, t)
                 ELSE real
  IN intr_set_level([S1 EXCEPT !.priority[t] = max_pri], old_level)

\* A donation that updates the priority but leaves t where it was in the list.
thread_donate_priority_in_place(S, t) == thread_update_priority(S, t)

\* A donation that moves t without recomputing its priority.
thread_donate_priority_stale(S, t) ==
  IF S.status[t] = "READY"
  THEN [S EXCEPT !.ready_list =
          list_insert_ordered(list_remove(@, t), t, S, "ComparePriority")]
  ELSE S

\* A donation that goes on along the chain: the lock t itself waits for takes
\* t's new priority and its holder is recomputed too.
thread_donate_priority_transitive(S, t) ==
  LET S1 == thread_update_priority(S, t)
      S2 == IF S1.status[t] = "READY"
            THEN [S1 EXCEPT !.ready_list =
                    list_insert_ordered(list_remove(@, t), t, S1, "ComparePriority")]
            ELSE S1
      l == S2.Waited_on_lock[t]
  IN IF l = NoLock \/ S2.holder[l] = NULL THEN S2
     ELSE thread_update_priority(
            [S2 EXCEPT !.lock_max[l] = IF @ < S2.priority[t] THEN S2.priority[t] ELSE @],
            S2.holder[l])

thread_donate_priority(S, t) ==
  LET old_level == S.intr_level
      S1 == thread_update_priority(intr_disable(S), t)
      S2 == IF S1.status[t] = "READY"
            THEN [S1 EXCEPT !.ready_list =
                    list_insert_ordered(list_remove(@, t), t, S1, "ComparePriority")]
            ELSE S1
  IN intr_set_level(S2, old_level)

\* A thread_set_priority that touches the effective priority only to raise it.
thread_set_priority_raise_only(S, new_priority) ==
  IF S.thread_mlfqs THEN S
  ELSE LET c == thread_current(S)
           S2 == [S EXCEPT !.real_priority[c] = new_priority]
           flag == new_priority > S.priority[c]
           S3 == IF flag THEN [S2 EXCEPT !.priority[c] = new_priority] ELSE S2
       IN IF flag THEN thread_yield(S3) ELSE S3

\* A thread_set_priority that returns without yielding.
thread_set_priority_no_yield(S, new_priority) ==
  IF S.thread_mlfqs THEN S
  ELSE LET c == thread_current(S)
           S2 == [S EXCEPT !.real_priority[c] = new_priority]
           flag == S2.Owned_locks[c] = {} \/ new_priority > S.priority[c]
       IN IF flag THEN [S2 EXCEPT !.priority[c] = new_priority] ELSE S2

thread_set_priority(S, new_priority) ==
  IF S.thread_mlfqs THEN S
  ELSE LET old_level == S.intr_level
           S1 == intr_disable(S)
           c == thread_current(S1)
           old_priority == S1.priority[c]
           S2 == [S1 EXCEPT !.real_priority[c] = new_priority]
           flag == S2.Owned_locks[c] = {} \/ new_priority > old_priority
           S3 == IF flag THEN [S2 EXCEPT !.priority[c] = new_priority] ELSE S2
           S4 == intr_set_level(S3, old_level)
       IN IF flag THEN thread_yield(S4) ELSE S4

thread_get_priority(S) == S.priority[thread_current(S)]

\* A thread_try_yeild that also gives way to a thread of equal priority.
thread_try_yeild_or_equal(S) ==
  IF S.in_intr THEN S
  ELSE LET flag == /\ S.ready_list # <<>>
                   /\ S.priority[Head(S.ready_list)] >= S.priority[thread_current(S)]
       IN IF flag THEN thread_yield(S) ELSE S

thread_try_yeild(S) ==
  IF S.in_intr THEN S
  ELSE LET flag == /\ S.ready_list # <<>>
                   /\ S.priority[Head(S.ready_list)] > S.priority[thread_current(S)]
       IN IF flag THEN thread_yield(S) ELSE S

\* ------------------------------------------------------------------- MLFQS
Clamp(p) == IF p < PRI_MIN THEN PRI_MIN ELSE IF p > PRI_MAX THEN PRI_MAX ELSE p

\* A derivation that leaves the priority where the formula puts it.
thread_update_priority_mlfqs_unclamped(S, t) ==
  [S EXCEPT !.priority[t] =
     PRI_MAX - real_to_int_toward_nearest(divide_by_int(S.recent_cpu[t], 4))
             - S.nice[t] * 2]

thread_update_priority_mlfqs(S, t) ==
  [S EXCEPT !.priority[t] =
     Clamp(PRI_MAX - real_to_int_toward_nearest(divide_by_int(S.recent_cpu[t], 4))
                   - S.nice[t] * 2)]

thread_set_nice(S, n) ==
  LET t == thread_current(S)
  IN thread_try_yeild(thread_update_priority_mlfqs([S EXCEPT !.nice[t] = n], t))

\* A count of the ready list alone, without the running thread.
get_ready_threads_ready_only(S) == Len(S.ready_list)

get_ready_threads(S) ==
  Len(S.ready_list) + (IF thread_current(S) # S.idle_thread THEN 1 ELSE 0)

thread_update_recent_cpu(S, t) ==
  LET recent_coff == divide(multiply_by_int(S.load_avg, 2),
                            add_real_to_int(multiply_by_int(S.load_avg, 2), 1))
  IN thread_update_priority_mlfqs(
       [S EXCEPT !.recent_cpu[t] =
          add_real_to_int(multiply(S.recent_cpu[t], recent_coff), S.nice[t])],
       t)

\* thread_foreach(thread_update_recent_cpu, NULL): every thread of all_list.
RECURSIVE foreach_update_recent_cpu(_, _)
foreach_update_recent_cpu(S, todo) ==
  IF todo = {} THEN S
  ELSE LET t == CHOOSE x \in todo : TRUE
       IN foreach_update_recent_cpu(thread_update_recent_cpu(S, t), todo \ {t})

\* thread_foreach(thread_update_priority_mlfqs_each, NULL)
RECURSIVE foreach_update_priority_mlfqs(_, _)
foreach_update_priority_mlfqs(S, todo) ==
  IF todo = {} THEN S
  ELSE LET t == CHOOSE x \in todo : TRUE
       IN foreach_update_priority_mlfqs(thread_update_priority_mlfqs(S, t), todo \ {t})

thread_update_recent_cpu_and_load_avg(S) ==
  LET ready_threads == get_ready_threads(S)
      c59_60 == divide(int_to_real(59), int_to_real(60))
      c1_60 == divide(int_to_real(1), int_to_real(60))
      S1 == [S EXCEPT !.load_avg = add(multiply(c59_60, S.load_avg),
                                       multiply(c1_60, int_to_real(ready_threads)))]
  IN IF S1.intr_level # "OFF" THEN Panic(S1)
     ELSE thread_try_yeild(foreach_update_recent_cpu(S1, S1.all_list))

thread_update_priority_mlfqs_all(S) ==
  IF S.intr_level # "OFF" THEN Panic(S)
  ELSE LET S1 == foreach_update_priority_mlfqs(S, S.all_list)
       IN [S1 EXCEPT !.ready_list = list_sort(@, S1, "ComparePriority")]

inc_recent_cpu(S, t) ==
  IF t # S.idle_thread
  THEN [S EXCEPT !.recent_cpu[t] = add_real_to_int(@, 1)]
  ELSE S

\* ------------------------------------------------------------------- sleep
thread_sleep(S, sleep_ticks, current_time) ==
  LET c == thread_current(S)
      S1 == [S EXCEPT !.waik_up_time[c] = current_time + sleep_ticks]
      S2 == [S1 EXCEPT !.sleeping_list = list_insert_ordered(@, c, S1, "thread_less_waik")]
  IN thread_block(S2)

\* The while loop of thread_tick over sleeping_list.  waik_up_time is kept for
\* the threads of sleeping_list only: the code leaves the field of a woken
\* thread as it was, and never reads it again before thread_sleep overwrites it,
\* so the model drops the dead value (0, the value init_thread gives).
RECURSIVE wake_sleepers(_, _)
wake_sleepers(S, current_time) ==
  IF S.panic \/ S.sleeping_list = <<>> THEN S
  ELSE LET thr == Head(S.sleeping_list)
       IN IF current_time < S.waik_up_time[thr] THEN S
          ELSE LET S1 == thread_unblock(S, thr)
               IN IF S1.panic THEN S1
                  ELSE wake_sleepers([S1 EXCEPT !.sleeping_list = list_remove(@, thr),
                                                !.waik_up_time[thr] = 0],
                                     current_time)

\* A thread_tick that asks for the yield one tick late.
thread_tick_late(S) ==
  LET S1 == wake_sleepers(S, S.ticks)
      S2 == [S1 EXCEPT !.thread_ticks = @ + 1]
  IN IF S1.panic THEN S1
     ELSE IF S2.thread_ticks > TIME_SLICE
          THEN [S2 EXCEPT !.yield_on_return = TRUE]
          ELSE S2

\* A thread_tick that wakes the due sleepers but leaves them in sleeping_list.
thread_tick_keep_sleepers(S) ==
  LET S1 == [wake_sleepers(S, S.ticks) EXCEPT !.sleeping_list = S.sleeping_list]
      S2 == [S1 EXCEPT !.thread_ticks = @ + 1]
  IN IF S1.panic THEN S1
     ELSE IF S2.thread_ticks >= TIME_SLICE
          THEN [S2 EXCEPT !.yield_on_return = TRUE]
          ELSE S2

thread_tick(S) ==
  LET S1 == wake_sleepers(S, S.ticks)
      S2 == [S1 EXCEPT !.thread_ticks = @ + 1]
  IN IF S1.panic THEN S1
     ELSE IF S2.thread_ticks >= TIME_SLICE
          THEN [S2 EXCEPT !.yield_on_return = TRUE]
          ELSE S2

\* ------------------------------------------------------------------ create
init_thread(S, t, pri) ==
  IF ~(PRI_MIN <= pri /\ pri <= PRI_MAX) THEN Panic(S)
  ELSE [S EXCEPT !.status[t] = "BLOCKED", !.priority[t] = pri,
                 !.waik_up_time[t] = 0, !.real_priority[t] = pri,
                 !.Owned_locks[t] = {}, !.Waited_on_lock[t] = NoLock,
                 !.nice[t] = 0, !.recent_cpu[t] = 0,
                 !.all_list = @ \cup {t}]

\* thread_create that never yields to the thread it has made ready.
thread_create_no_yield(S, t, pri) ==
  IF t = NULL THEN S
  ELSE LET c == thread_current(S)
           S1 == init_thread(S, t, pri)
           S2 == [S1 EXCEPT !.next_tid = @ + 1, !.resume_level[t] = "ON"]
           S3 == IF S2.thread_mlfqs
                 THEN thread_update_priority_mlfqs(
                        [S2 EXCEPT !.recent_cpu[t] = S2.recent_cpu[c],
                                   !.nice[t] = S2.nice[c]], t)
                 ELSE S2
       IN IF S1.panic THEN S1 ELSE thread_unblock(S3, t)

\* A thread_create that takes a tid before it looks at the page it was given.
thread_create_tid_first(S, t, pri) ==
  IF t = NULL THEN [S EXCEPT !.next_tid = @ + 1]
  ELSE thread_create_no_yield(S, t, pri)

\* thread_create with the page t that palloc_get_page() returned (NULL: none left).
thread_create(S, t, pri) ==
  IF t = NULL THEN S
  ELSE LET c == thread_current(S)
           S1 == init_thread(S, t, pri)
           S2 == [S1 EXCEPT !.next_tid = @ + 1, !.resume_level[t] = "ON"]
           S3 == IF S2.thread_mlfqs
                 THEN thread_update_priority_mlfqs(
                        [S2 EXCEPT !.recent_cpu[t] = S2.recent_cpu[c],
                                   !.nice[t] = S2.nice[c]], t)
                 ELSE S2
           S4 == thread_unblock(S3, t)
       IN IF S1.panic THEN S1
          ELSE IF S4.panic THEN S4
          ELSE IF S4.priority[thread_current(S4)] < pri THEN thread_yield(S4)
          ELSE S4

\* sema_down on a semaphore whose value is 0 (threads/synch.c):
\* old_level = intr_disable(); thread_block(); intr_set_level(old_level).
sema_down(S) ==
  LET c == thread_current(S)
      old_level == S.intr_level
      S1 == thread_block(intr_disable(S))
  IN IF S1.panic THEN S1 ELSE [S1 EXCEPT !.resume_level[c] = old_level]

\* ------------------------------------------------------------------- locks
\* The lock code (threads/synch.c) as the scheduler sees it.  A thread that
\* finds the lock held records it as Waited_on_lock, raises the lock's
\* Waiting_threads_max_priority to its own priority, donates to the holder
\* (priority mode only) and blocks; the donation is single-level.
lock_acquire(S, l) ==
  LET c == thread_current(S)
  IN IF S.holder[l] = NULL
     THEN [S EXCEPT !.holder[l] = c, !.Owned_locks[c] = @ \cup {l}]
     ELSE LET S1 == [S EXCEPT !.Waited_on_lock[c] = l]
              S2 == IF S1.thread_mlfqs THEN S1
                    ELSE thread_donate_priority(
                           [S1 EXCEPT !.lock_max[l] =
                              IF @ < S1.priority[c] THEN S1.priority[c] ELSE @],
                           S1.holder[l])
          IN sema_down(S2)

\* The holder gives the lock up, recomputes its own priority (priority mode
\* only) and hands the lock to the waiter w (NULL: nobody waits), which is
\* unblocked; the lock's Waiting_threads_max_priority becomes the highest
\* priority among the threads still waiting, PRI_MIN if there are none.
lock_release(S, l, w) ==
  LET c == thread_current(S)
      S1 == [S EXCEPT !.holder[l] = NULL, !.Owned_locks[c] = @ \ {l}]
      S2 == IF S1.thread_mlfqs THEN S1 ELSE thread_update_priority(S1, c)
      rest == {t \in Tids : S2.Waited_on_lock[t] = l /\ t # w}
      S3 == [S2 EXCEPT !.lock_max[l] = MaxOf({S2.priority[t] : t \in rest}, PRI_MIN)]
  IN IF w = NULL THEN S3
     ELSE thread_unblock([S3 EXCEPT !.holder[l] = w, !.Owned_locks[w] = @ \cup {l},
                                    !.Waited_on_lock[w] = NoLock], w)

\* The waiters lock_release may wake: those of the highest priority.
top_waiters(S, l) ==
  LET ws == {t \in Tids : S.Waited_on_lock[t] = l /\ S.status[t] = "BLOCKED"}
  IN {t \in ws : \A u \in ws : S.priority[u] <= S.priority[t]}

\* ------------------------------------------------------------------- timer
\* timer_sleep (devices/timer.c) with interrupts disabled around thread_sleep.
timer_sleep(S, sleep_ticks) ==
  LET c == thread_current(S)
      old_level == S.intr_level
      S1 == thread_sleep(intr_disable(S), sleep_ticks, S.ticks)
  IN IF S1.panic THEN S1 ELSE [S1 EXCEPT !.resume_level[c] = old_level]

\* The timer interrupt handler (devices/timer.c): counts the tick, calls
\* thread_tick() and, in MLFQS mode, charges the tick to the running thread,
\* recomputes load_avg and recent_cpu once a second and every priority once
\* every fourth tick.  External interrupt handlers run with interrupts off.
\* The handler up to the MLFQS steps: the tick is counted, thread_tick() has
\* run and the tick is charged to the running thread.
timer_interrupt_tick(S) ==
  LET S1 == [S EXCEPT !.in_intr = TRUE, !.intr_level = "OFF", !.ticks = @ + 1]
      S2 == thread_tick(S1)
  IN IF S2.panic \/ ~S2.thread_mlfqs THEN S2
     ELSE inc_recent_cpu(S2, thread_current(S2))

\* freq is the number of ticks in a second.
timer_interrupt_every(S, freq) ==
  LET S3 == timer_interrupt_tick(S)
      S4 == IF S3.thread_mlfqs /\ S3.ticks % freq = 0
            THEN thread_update_recent_cpu_and_load_avg(S3) ELSE S3
      S5 == IF S4.thread_mlfqs /\ S4.ticks % 4 = 0
            THEN thread_update_priority_mlfqs_all(S4) ELSE S4
  IN IF S3.panic THEN S3 ELSE S5

timer_interrupt(S) == timer_interrupt_every(S, TIMER_FREQ)

\* Return from the interrupt (threads/interrupt.c): the handler context ends
\* and the thread yields if intr_yield_on_return() was called.
intr_return(S) ==
  LET S1 == [S EXCEPT !.in_intr = FALSE, !.intr_level = "ON", !.yield_on_return = FALSE]
  IN IF S.yield_on_return THEN thread_yield(S1) ELSE S1

\* -------------------------------------------------------------------- boot
\* thread_start: creates the idle thread, enables interrupts and waits on the
\* semaphore idle_started, that is, blocks until idle() has run.
thread_start(S) ==
  LET S1 == thread_create(S, S.next_tid, PRI_MIN)
      S2 == [S1 EXCEPT !.load_avg = int_to_real(0), !.intr_level = "ON"]
  IN IF S1.panic THEN S1 ELSE sema_down(S2)

\* idle(), up to its loop: records idle_thread and ups idle_started, which
\* unblocks the thread waiting in thread_start.
idle_init(S) ==
  thread_unblock([S EXCEPT !.idle_thread = thread_current(S)], initial_thread)

\* One turn of idle()'s loop: intr_disable(); thread_block(); then "sti; hlt".
idle(S) == thread_block(intr_disable(S))

\* -------------------------------------------------------------------- Init
\* The state thread_init() leaves: the running code has become thread "main".
\* mlfqs is the kernel option -mlfqs, locks the locks the kernel's code declares.
thread_init(mlfqs, locks) ==
  /\ thread_mlfqs = mlfqs
  /\ status = [t \in Tids |-> IF t = initial_thread THEN "RUNNING" ELSE "UNUSED"]
  /\ priority = [t \in Tids |-> IF t = initial_thread THEN PRI_DEFAULT ELSE 0]
  /\ real_priority = [t \in Tids |-> IF t = initial_thread THEN PRI_DEFAULT ELSE 0]
  /\ nice = [t \in Tids |-> 0]
  /\ recent_cpu = [t \in Tids |-> int_to_real(0)]
  /\ waik_up_time = [t \in Tids |-> 0]
  /\ Owned_locks = [t \in Tids |-> {}]
  /\ Waited_on_lock = [t \in Tids |-> NoLock]
  /\ ready_list = <<>>
  /\ all_list = {initial_thread}
  /\ sleeping_list = <<>>
  /\ idle_thread = NULL
  /\ cur = initial_thread
  /\ thread_ticks = 0
  /\ next_tid = 2
  /\ load_avg = int_to_real(0)
  /\ ticks = 0
  /\ intr_level = "OFF"
  /\ in_intr = FALSE
  /\ yield_on_return = FALSE
  /\ resume_level = [t \in Tids |-> "OFF"]
  /\ holder = [l \in locks |-> NULL]
  /\ lock_max = [l \in locks |-> PRI_MIN]
  /\ freed = {}
  /\ panic = FALSE
  /\ op = [name |-> "thread_init", by |-> initial_thread, t |-> initial_thread,
           arg |-> 0, pri |-> PRI_DEFAULT]

Init == \E mlfqs \in BOOLEAN : thread_init(mlfqs, Locks)

\* ----------------------------------------------------------------- actions
\* Operation name with target t and argument arg takes the kernel to S.  op
\* also keeps the thread that was running when the operation was called and
\* the effective priority that thread had then.
Do(name, t, arg, S) ==
  /\ Apply(S)
  /\ op' = [name |-> name, by |-> cur, t |-> t, arg |-> arg, pri |-> priority[cur]]

\* The priorities callers ask for, and the pages palloc_get_page() has.
PriArgs == IF thread_mlfqs THEN MlfqsModeArgs ELSE PriorityModeArgs
MaxPages == IF thread_mlfqs THEN MaxMlfqsThreads ELSE MaxThreads

\* thread_start() has not been called yet.
Booting == idle_thread = NULL /\ next_tid = 2
\* idle() has set idle_thread.
Started == idle_thread # NULL
\* A kernel thread other than the idle thread is running its own code.
InThread == ~panic /\ ~in_intr /\ Started /\ cur # idle_thread

ThreadStart ==
  /\ ~panic /\ Booting
  /\ Do("thread_start", cur, 0, thread_start(K))

IdleInit ==
  /\ ~panic /\ ~in_intr /\ idle_thread = NULL /\ ~Booting /\ cur = 2
  /\ Do("idle_init", cur, 0, idle_init(K))

Idle ==
  /\ ~panic /\ ~in_intr /\ Started /\ cur = idle_thread
  /\ Do("idle", cur, 0, idle(K))

Create ==
  /\ InThread /\ next_tid <= MaxPages
  /\ \E p \in PriArgs : Do("thread_create", next_tid, p, thread_create(K, next_tid, p))

\* palloc_get_page() returns NULL.
CreateFail ==
  /\ InThread
  /\ \E p \in PriArgs : Do("thread_create_fail", NULL, p, thread_create(K, NULL, p))

\* thread_block() called as it is, whatever the interrupt level.
Block ==
  /\ InThread
  /\ Do("thread_block", cur, 0, thread_block(K))

\* A thread waits on a semaphore (or a condition) somebody will up.
SemaDown ==
  /\ InThread
  /\ Do("sema_down", cur, 0, sema_down(K))

\* thread_unblock(t) by a thread or an interrupt handler.  Threads parked in
\* the sleeping list or waiting for a lock are woken by thread_tick and
\* lock_release only, and nobody holds a reference to the idle thread.
Unblock ==
  /\ ~panic /\ ~in_intr /\ Started
  /\ \E t \in Tids :
       /\ status[t] # "UNUSED" /\ t \notin freed /\ t # idle_thread
       /\ t \notin Range(sleeping_list) /\ Waited_on_lock[t] = NoLock
       /\ Do("thread_unblock", t, 0, thread_unblock(K, t))

Yield ==
  /\ InThread
  /\ Do("thread_yield", cur, 0, thread_yield(K))

\* A thread exits once it has released its locks.
Exit ==
  /\ InThread /\ Owned_locks[cur] = {}
  /\ Do("thread_exit", cur, 0, thread_exit(K))

SetPriority ==
  /\ InThread
  /\ \E p \in PriArgs : Do("thread_set_priority", cur, p, thread_set_priority(K, p))

\* nice is an input of MLFQS mode.
SetNice ==
  /\ InThread /\ thread_mlfqs
  /\ \E n \in NiceArgs : Do("thread_set_nice", cur, n, thread_set_nice(K, n))

TryYield ==
  /\ InThread
  /\ Do("thread_try_yeild", cur, 0, thread_try_yeild(K))

\* thread_sleep() called as it is, whatever the interrupt level.
Sleep ==
  /\ InThread
  /\ \E n \in SleepArgs : Do("thread_sleep", cur, n, thread_sleep(K, n, ticks))

TimerSleep ==
  /\ InThread
  /\ \E n \in SleepArgs : Do("timer_sleep", cur, n, timer_sleep(K, n))

\* Donation is part of priority mode; its target is the holder of a lock.
Donate ==
  /\ InThread /\ ~thread_mlfqs
  /\ \E t \in {holder[l] : l \in DOMAIN holder} \ {NULL} : Do("thread_donate_priority", t, 0, thread_donate_priority(K, t))

Recompute ==
  /\ InThread /\ ~thread_mlfqs
  /\ Do("thread_update_priority", cur, 0, thread_update_priority(K, cur))

\* In MLFQS mode the lock code does nothing to the scheduler beyond the
\* blocking and unblocking that SemaDown and Unblock stand for.
LockAcquire ==
  /\ InThread /\ ~thread_mlfqs
  /\ \E l \in DOMAIN holder :
       /\ holder[l] # cur
       /\ Do("lock_acquire", cur, l, lock_acquire(K, l))

LockRelease ==
  /\ InThread /\ ~thread_mlfqs
  /\ \E l \in Owned_locks[cur] :
       \E w \in (IF top_waiters(K, l) = {} THEN {NULL} ELSE top_waiters(K, l)) :
         Do("lock_release", cur, l, lock_release(K, l, w))

TimerInterrupt ==
  /\ ~panic /\ ~in_intr /\ intr_level = "ON" /\ ticks < MaxTicks
  /\ Do("timer_interrupt", IF sleeping_list = <<>> THEN NULL ELSE Head(sleeping_list),
        0, timer_interrupt(K))

IntrReturn ==
  /\ ~panic /\ in_intr
  /\ Do("intr_return", cur, IF yield_on_return THEN 1 ELSE 0, intr_return(K))

Next ==
  \/ ThreadStart \/ IdleInit \/ Idle
  \/ Create \/ CreateFail \/ Block \/ SemaDown \/ Unblock \/ Yield \/ Exit
  \/ SetPriority \/ SetNice \/ TryYield \/ Sleep \/ TimerSleep
  \/ Donate \/ Recompute \/ LockAcquire \/ LockRelease
  \/ TimerInterrupt \/ IntrReturn

Spec == Init /\ [][Next]_vars

\* A priority-mode kernel whose threads share two locks, without the timer:
\* the operations a chain of lock holders is built from.
TwoLocks == {1, 2}

InitDonation == thread_init(FALSE, TwoLocks)

NextDonation ==
  \/ ThreadStart \/ IdleInit \/ Idle
  \/ Create \/ SemaDown \/ Unblock \/ Yield \/ SetPriority
  \/ Donate \/ Recompute \/ LockAcquire \/ LockRelease

SpecDonation == InitDonation /\ [][NextDonation]_vars

\* An MLFQS kernel of up to MaxSecondThreads threads whose second lasts
\* SecondTicks ticks and whose timer stops after MaxSeconds seconds; nice
\* takes values on both sides of 0.
SecondTicks == 4
MaxSeconds == 1
MaxSecondThreads == 4
MlfqsNiceArgs == {-20, 1, 40}

InitMlfqs == thread_init(TRUE, Locks)

MlfqsCreate ==
  /\ InThread /\ next_tid <= MaxSecondThreads
  /\ \E p \in MlfqsModeArgs : Do("thread_create", next_tid, p, thread_create(K, next_tid, p))

MlfqsSetNice ==
  /\ InThread
  /\ \E n \in MlfqsNiceArgs : Do("thread_set_nice", cur, n, thread_set_nice(K, n))

MlfqsTimerInterrupt ==
  /\ ~panic /\ ~in_intr /\ intr_level = "ON" /\ ticks < MaxSeconds * SecondTicks
  /\ Do("timer_interrupt", NULL, SecondTicks, timer_interrupt_every(K, SecondTicks))

NextMlfqs ==
  \/ ThreadStart \/ IdleInit \/ Idle
  \/ MlfqsCreate \/ MlfqsSetNice \/ Yield
  \/ MlfqsTimerInterrupt \/ IntrReturn

SpecMlfqs == InitMlfqs /\ [][NextMlfqs]_vars

\* An MLFQS kernel in which thread "main" runs alone for MaxLoadAvgSeconds
\* seconds of TIMER_FREQ ticks each; the first tick comes once the kernel has
\* started, and never finds the idle thread running, as main never blocks.
MaxLoadAvgSeconds == 370

LoadAvgTimerInterrupt ==
  /\ ~panic /\ ~in_intr /\ intr_level = "ON" /\ Started /\ cur # idle_thread
  /\ ticks < MaxLoadAvgSeconds * TIMER_FREQ
  /\ Do("timer_interrupt", NULL, TIMER_FREQ, timer_interrupt(K))

NextLoadAvg ==
  \/ ThreadStart \/ IdleInit \/ Idle
  \/ LoadAvgTimerInterrupt \/ IntrReturn

SpecLoadAvg == InitMlfqs /\ [][NextLoadAvg]_vars

\* ------------------------------------------------------------------ claims
Live(t) == status[t] # "UNUSED"
Index(l, x) == MinOf({i \in 1..Len(l) : l[i] = x})
Sorted(l) == \A i, j \in 1..Len(l) : i < j => priority[l[i]] >= priority[l[j]]

\* C1: in priority mode the ready list is in non-increasing order of effective
\* priority in every reachable state, so its front has the maximum effective
\* priority among the READY threads.
C1_ReadySorted ==
  ~thread_mlfqs =>
    /\ Sorted(ready_list)
    /\ ready_list # <<>> =>
         \A t \in Tids : status[t] = "READY" => priority[t] <= priority[Head(ready_list)]

\* thread_unblock has put a thread in front of a ready thread of lower priority.
C1_Witness ==
  /\ ~thread_mlfqs /\ ~panic /\ op.name = "thread_unblock"
  /\ Len(ready_list) >= 2 /\ ready_list[1] = op.t
  /\ priority[ready_list[1]] > priority[ready_list[2]]

\* A thread_create that asked for more than the creator's effective priority.
CreatedAbove ==
  ~thread_mlfqs /\ ~panic /\ op.name = "thread_create" /\ op.arg > op.pri

\* C2 as stated: in priority mode, after thread_create with a priority above the
\* creator's effective priority the new thread is the RUNNING thread.
C2_NewThreadRuns ==
  CreatedAbove => cur = op.t /\ status[op.t] = "RUNNING"

\* C2 amended: in priority mode, after thread_create with a priority above the
\* creator's effective priority the creator has yielded (it is READY, in the
\* ready list, and another thread runs); the thread that runs is the new thread
\* when no thread that was READY has at least the new thread's priority (then
\* every thread left in the ready list ranks below it), and otherwise a thread
\* of at least that priority, with the new thread READY in the ready list.
C2_CreatorYields ==
  CreatedAbove =>
    /\ status[op.by] = "READY" /\ op.by \in Range(ready_list) /\ cur # op.by
    /\ status[cur] = "RUNNING" /\ priority[cur] >= op.arg
    /\ priority[op.t] = op.arg
    /\ \/ cur = op.t /\ \A r \in Range(ready_list) : priority[r] < op.arg
       \/ cur # op.t /\ status[op.t] = "READY" /\ op.t \in Range(ready_list)

\* The new thread runs and its creator waits in the ready list.
C2_Witness ==
  CreatedAbove /\ cur = op.t /\ status[op.by] = "READY" /\ priority[op.by] < op.arg

\* The largest Waiting_threads_max_priority among the locks t owns after a step.
LockMaxAfter(t) ==
  MaxOf({lock_max'[l] : l \in Owned_locks'[t]}, PRI_MIN)

\* The operations of the donation protocol and of the lock code that calls it.
DonationOps ==
  {"lock_acquire", "lock_release", "thread_donate_priority", "thread_update_priority"}

\* C3: donation round trip.  When a thread blocks on a lock held by A, A's
\* effective priority becomes the maximum of A's base priority and the
\* priorities of the threads waiting for the lock (5 for base 1 and one donor of
\* priority 5); when A releases the lock and is recomputed, its effective
\* priority is the maximum of its base priority and what the locks it still owns
\* carry, that is, its base priority again when it owns no other lock; and no
\* step of the donation protocol changes a base priority.
C3_DonationRoundTrip ==
  [][~panic' =>
       /\ op'.name \in DonationOps => real_priority' = real_priority
       /\ (op'.name = "lock_acquire" /\ holder[op'.arg] # NULL) =>
            LET a == holder[op'.arg]
                waiting == {u \in Tids : Waited_on_lock[u] = op'.arg} \cup {cur}
            IN priority'[a] =
                 MaxOf({real_priority[a]} \cup {priority[u] : u \in waiting}, PRI_MIN)
       /\ op'.name = "lock_release" =>
            /\ priority'[cur] = MaxOf({real_priority[cur], LockMaxAfter(cur)}, PRI_MIN)
            /\ Owned_locks'[cur] = {} => priority'[cur] = real_priority[cur]
  ]_vars

\* A holder of base priority 1 that ran at the donated priority 5 has released
\* the lock to its donor and is back at priority 1.
C3_Witness ==
  /\ ~panic /\ op.name = "lock_release" /\ op.pri = 5
  /\ real_priority[op.by] = 1 /\ priority[op.by] = 1
  /\ holder[op.arg] # NULL /\ priority[holder[op.arg]] = 5

\* C4: donation is visible at once.  After a donation to a READY lock holder t
\* (thread_donate_priority itself, or lock_acquire blocking on t's lock), with h
\* the largest Waiting_threads_max_priority of t's locks: t's effective priority
\* is at least h, and t either has been dispatched by the donor's blocking or
\* sits in the ready list ahead of every thread of priority below h; the thread
\* the donor's blocking dispatches never ranks below h.
C4_DonationVisible ==
  [][(~panic' /\ op'.name \in {"thread_donate_priority", "lock_acquire"}) =>
       LET t == IF op'.name = "lock_acquire" THEN holder[op'.arg] ELSE op'.t
           h == LockMaxAfter(t)
       IN (t # NULL /\ status[t] = "READY") =>
            /\ priority'[t] >= h
            /\ op'.name = "lock_acquire" => priority'[cur'] >= h
            /\ \/ cur' = t /\ status'[t] = "RUNNING"
               \/ /\ t \in Range(ready_list')
                  /\ \A r \in Range(ready_list') :
                       priority'[r] < h => Index(ready_list', t) < Index(ready_list', r)
  ]_vars

\* A READY holder was raised past a ready thread of medium priority and runs
\* before it.
C4_Witness ==
  /\ ~panic /\ op.name = "lock_acquire" /\ cur = holder[op.arg] /\ cur # op.by
  /\ priority[cur] > real_priority[cur]
  /\ \E r \in Range(ready_list) :
       real_priority[cur] < priority[r] /\ priority[r] < priority[cur]

\* The sleeping list in a state: ascending wake times, sleepers BLOCKED, and
\* nobody overdue once the timer interrupt has run.
SleepingListInOrder ==
  ~panic =>
    /\ \A i, j \in 1..Len(sleeping_list) :
         i < j => waik_up_time[sleeping_list[i]] <= waik_up_time[sleeping_list[j]]
    /\ \A t \in Range(sleeping_list) : status[t] = "BLOCKED"
    /\ op.name = "timer_interrupt" =>
         \A t \in Range(sleeping_list) : waik_up_time[t] > ticks

\* What a step does to the sleepers: a tick that reaches a sleeper's deadline
\* wakes it, and nothing else touches it.
SleepersStep ==
  ~panic' =>
    /\ ticks' >= ticks
    /\ \A t \in Range(sleeping_list) :
         IF op'.name = "timer_interrupt" /\ waik_up_time[t] <= ticks'
         THEN t \notin Range(sleeping_list') /\ status'[t] = "READY"
              /\ t \in Range(ready_list')
         ELSE t \in Range(sleeping_list') /\ status'[t] = "BLOCKED"
              /\ waik_up_time'[t] = waik_up_time[t]

\* C5: the tick counter never decreases; a sleeping thread stays BLOCKED and in
\* the sleeping list over every step but a tick that reaches its deadline, and
\* that tick removes it from the sleeping list and makes it READY; after every
\* tick no thread with deadline <= now is left in the sleeping list, and the
\* sleeping list is always in ascending order of wake time.
C5_SleepWake ==
  []SleepingListInOrder /\ [][SleepersStep]_vars

\* A tick has woken the sleeper at the front while another sleeper stays.
C5_Witness ==
  /\ ~panic /\ op.name = "timer_interrupt" /\ op.t # NULL
  /\ status[op.t] = "READY" /\ op.t \notin Range(sleeping_list)
  /\ sleeping_list # <<>>

\* The effective priority of t is at least its base priority, and equal to it
\* when t owns no lock.
BaseBelowEffective(t) ==
  /\ priority[t] >= real_priority[t]
  /\ Owned_locks[t] = {} => priority[t] = real_priority[t]

Lowering ==
  ~thread_mlfqs /\ op'.name = "thread_set_priority" /\ priority'[cur] < priority[cur]

\* The ready list with c put behind the threads of priority p or more.
YieldOrder(l, c, p) ==
  SelectSeq(l, LAMBDA r : priority[r] >= p) \o <<c>> \o SelectSeq(l, LAMBDA r : priority[r] < p)

\* C7 as stated: when thread_set_priority lowers the caller's effective
\* priority the caller is still the RUNNING thread afterwards, and the ready
\* list and every other thread's status are unchanged.
C7_NoPreemption ==
  [][Lowering =>
       /\ cur' = cur /\ status'[cur] = "RUNNING"
       /\ ready_list' = ready_list
       /\ \A t \in Tids \ {cur} : status'[t] = status[t]
  ]_vars

\* C7 amended: when thread_set_priority lowers the caller's effective priority
\* to p the caller yields: it enters the ready list behind the threads of
\* priority p or more and the front of that list runs, so the caller is still
\* the RUNNING thread exactly when every READY thread ranks below p; base and
\* effective priority of the caller are p, and no other thread's priority, and
\* no status but the caller's and the dispatched thread's, changes.
C7_LoweringYields ==
  [][Lowering =>
       LET c == cur
           p == op'.arg
           order == YieldOrder(ready_list, c, p)
       IN /\ ~panic'
          /\ cur' = Head(order) /\ ready_list' = Tail(order)
          /\ status'[cur'] = "RUNNING"
          /\ cur' = c <=> \A r \in Range(ready_list) : priority[r] < p
          /\ cur' # c => status'[c] = "READY"
          /\ priority'[c] = p /\ real_priority'[c] = p
          /\ \A t \in Tids \ {c} : priority'[t] = priority[t]
          /\ \A t \in Tids \ {c, cur'} : status'[t] = status[t]
  ]_vars

\* The caller lowered its priority and was switched away from.
C7_Witness ==
  /\ ~thread_mlfqs /\ ~panic /\ op.name = "thread_set_priority"
  /\ op.arg < op.pri /\ priority[op.by] = op.arg
  /\ cur # op.by /\ status[op.by] = "READY" /\ status[cur] = "RUNNING"

\* C8 as stated: in MLFQS mode the priority arguments have no influence:
\* thread_set_priority changes nothing, and a thread_create gives the same
\* priorities, ready list, statuses and running thread whatever priority it is
\* passed, yielding only if the new thread's derived priority exceeds the
\* creator's effective priority.
C8_ArgumentsHaveNoInfluence ==
  [][thread_mlfqs =>
       /\ op'.name = "thread_set_priority" => UNCHANGED kvars
       /\ op'.name = "thread_create" =>
            /\ \A p \in MlfqsModeArgs :
                 LET S == thread_create(K, next_tid, p)
                 IN /\ priority' = S.priority /\ ready_list' = S.ready_list
                    /\ status' = S.status /\ cur' = S.cur
            /\ cur' # cur <=> priority'[op'.t] > priority[cur]
  ]_vars

\* Everything but status and ready_list.
UnblockFrame ==
  <<thread_mlfqs, priority, real_priority, nice, recent_cpu, waik_up_time,
    Owned_locks, Waited_on_lock, all_list, sleeping_list, idle_thread, cur,
    thread_ticks, next_tid, load_avg, ticks, intr_level, in_intr,
    yield_on_return, resume_level, holder, lock_max, freed, panic>>

\* C9: thread_unblock(t) on a BLOCKED thread t makes t READY and inserts it in
\* the ready list, whose other elements keep their order, and changes nothing
\* else: the running thread is the same and RUNNING, nothing is dispatched and
\* the interrupt level is what it was, whatever t's priority; thread_unblock on
\* a thread that is not BLOCKED fails its assertion.
C9_UnblockFrame ==
  [][op'.name = "thread_unblock" =>
       LET t == op'.t
       IN IF status[t] = "BLOCKED"
          THEN /\ status' = [status EXCEPT ![t] = "READY"]
               /\ t \in Range(ready_list') /\ list_remove(ready_list', t) = ready_list
               /\ Len(ready_list') = Len(ready_list) + 1
               /\ cur' = cur /\ status'[cur] = "RUNNING" /\ intr_level' = intr_level
               /\ UNCHANGED UnblockFrame
          ELSE panic' /\ status' = status /\ ready_list' = ready_list
  ]_vars

\* The woken thread outranks the running thread, which goes on running.
C9_Witness ==
  /\ ~panic /\ op.name = "thread_unblock" /\ status[op.t] = "READY"
  /\ cur = op.by /\ status[cur] = "RUNNING" /\ priority[op.t] > priority[cur]

\* A step that is a thread_yield by the running thread: the call itself, or the
\* yield on return from an interrupt.
YieldStep ==
  op'.name = "thread_yield" \/ (op'.name = "intr_return" /\ op'.arg = 1)

\* C10: thread_yield by a thread other than the idle thread puts it in the
\* ready list behind every thread of its priority or more and ahead of every
\* thread of less, and dispatches the front: a ready thread of its priority or
\* more runs next (the one that waited longest among equals), and a thread that
\* outranks every ready thread goes on running.  A yielding idle thread is not
\* put in the ready list.
C10_YieldOrder ==
  [][YieldStep =>
       LET c == cur
           order == IF c = idle_thread THEN ready_list
                    ELSE YieldOrder(ready_list, c, priority[c])
       IN /\ ~panic' /\ priority' = priority
          /\ IF order = <<>> THEN cur' = c /\ ready_list' = <<>>
             ELSE cur' = Head(order) /\ ready_list' = Tail(order)
          /\ status'[cur'] = "RUNNING"
          /\ cur' # c => status'[c] = "READY"
          /\ c # idle_thread =>
               (cur' = c <=> \A r \in Range(ready_list) : priority[r] < priority[c])
          /\ idle_thread \notin Range(ready_list')
  ]_vars

\* A yield has passed the processor to a ready thread of the same priority.
C10_Witness ==
  /\ ~panic /\ op.name = "thread_yield" /\ cur # op.by
  /\ priority[cur] = priority[op.by] /\ op.by \in Range(ready_list)
  /\ ready_list[Len(ready_list)] = op.by

\* The dying threads in a state: out of every collection, not running, and
\* reclaimed only if dynamically allocated.
DyingThreadsGone ==
  /\ \A t \in Tids :
       status[t] = "DYING" =>
         /\ t \notin all_list /\ t \notin Range(ready_list)
         /\ t \notin Range(sleeping_list) /\ cur # t
  /\ \A t \in freed : status[t] = "DYING" /\ t # initial_thread

\* What a step does to the dying threads: they stay DYING, and a page is given
\* back only in the step in which its thread exits, by the thread dispatched
\* next.
DyingThreadsStep ==
  /\ \A t \in Tids : status[t] = "DYING" => status'[t] = "DYING" /\ cur' # t
  /\ op'.name = "thread_exit" =>
       /\ status'[cur] = "DYING" /\ cur' # cur /\ cur \notin freed
       /\ freed' = IF cur = initial_thread THEN freed ELSE freed \cup {cur}
  /\ op'.name # "thread_exit" => freed' = freed

\* C11: after thread_exit the exiting thread is DYING, is out of all_list and
\* of the ready and sleeping lists and never runs again; its page is given back
\* at most once, in the exit step itself by the finalization of the thread
\* dispatched next, when the dying thread no longer runs, and the page of the
\* initial thread is never given back.
C11_ExitedThreadsStayDead ==
  []DyingThreadsGone /\ [][DyingThreadsStep]_vars

\* The initial thread and a created thread have both exited: only the created
\* thread's page was given back.
C11_Witness ==
  /\ ~panic /\ op.name = "thread_exit"
  /\ status[initial_thread] = "DYING" /\ initial_thread \notin freed
  /\ \E t \in freed : status[t] = "DYING"

\* C12: in every state exactly one thread is RUNNING, and it is the thread
\* whose stack is active.
C12_ExactlyOneRunning ==
  {t \in Tids : status[t] = "RUNNING"} = {cur}

\* A thread has blocked and the thread dispatched in its place is the RUNNING
\* one.
C12_Witness ==
  /\ ~panic /\ op.name = "sema_down" /\ cur # op.by
  /\ status[op.by] = "BLOCKED" /\ status[cur] = "RUNNING"

\* C13: as long as no assertion has failed, no thread is in both the ready and
\* the sleeping list, no thread is twice in either, the RUNNING thread is in
\* neither, every thread of the sleeping list is BLOCKED and every thread of the
\* ready list is READY.
C13_ExclusiveMembership ==
  ~panic =>
    /\ Range(ready_list) \cap Range(sleeping_list) = {}
    /\ Cardinality(Range(ready_list)) = Len(ready_list)
    /\ Cardinality(Range(sleeping_list)) = Len(sleeping_list)
    /\ cur \notin Range(ready_list) \cup Range(sleeping_list)
    /\ \A t \in Range(sleeping_list) : status[t] = "BLOCKED"
    /\ \A t \in Range(ready_list) : status[t] = "READY"

\* A tick has moved one sleeper to the ready list while another sleeps on.
C13_Witness ==
  /\ ~panic /\ op.name = "timer_interrupt" /\ op.t \in Range(ready_list)
  /\ Len(sleeping_list) >= 1 /\ Len(ready_list) >= 1
  /\ status[cur] = "RUNNING"

\* C17: a thread_create whose page allocation fails changes nothing: all_list,
\* the ready list, next_tid and the running thread are what they were.
C17_FailedCreateChangesNothing ==
  [][op'.name = "thread_create_fail" =>
       /\ all_list' = all_list /\ ready_list' = ready_list
       /\ next_tid' = next_tid /\ cur' = cur /\ status' = status
       /\ UNCHANGED kvars
  ]_vars

\* A thread_create has failed while threads were waiting in the ready list.
C17_Witness ==
  /\ ~panic /\ op.name = "thread_create_fail" /\ cur = op.by
  /\ ready_list # <<>> /\ status[cur] = "RUNNING"

\* The front of the ready list strictly outranks the running thread.
Outranked ==
  ready_list # <<>> /\ priority[Head(ready_list)] > priority[cur]

\* C18: thread_try_yeild changes nothing when the ready list is empty or its
\* front does not strictly outrank the running thread (so that repeating the
\* call leaves the state identical), and yields when the front does.
C18_TryYieldNoOp ==
  [][op'.name = "thread_try_yeild" =>
       IF Outranked
       THEN /\ cur' = Head(ready_list) /\ status'[cur] = "READY"
            /\ cur \in Range(ready_list') /\ status'[cur'] = "RUNNING"
       ELSE UNCHANGED kvars
  ]_vars

\* thread_try_yeild has returned without a switch although a thread of the
\* caller's own priority waits at the front of the ready list.
C18_Witness ==
  /\ ~panic /\ op.name = "thread_try_yeild" /\ cur = op.by
  /\ ready_list # <<>> /\ priority[Head(ready_list)] = priority[cur]

\* C19 as stated: in priority mode every thread's effective priority is the
\* maximum of its base priority and the Waiting_threads_max_priority of the
\* locks it owns.
C19_EffectiveIsMaxOfBaseAndDonations ==
  (~thread_mlfqs /\ ~panic) =>
    \A t \in Tids :
      Live(t) =>
        priority[t] =
          MaxOf({real_priority[t]} \cup {lock_max[l] : l \in Owned_locks[t]}, PRI_MIN)

\* What a recomputation of t leaves as t's effective priority: the larger of
\* its base priority and the largest Waiting_threads_max_priority among the
\* locks t itself owns, the base priority when it owns none.
RecomputedPriority(t) ==
  MaxOf({real_priority'[t]} \cup {lock_max'[l] : l \in Owned_locks'[t]}, PRI_MIN)

\* The thread a donating step recomputes: the target of thread_donate_priority
\* and thread_update_priority, the holder of the lock a lock_acquire waits for.
Recomputed ==
  IF op'.name = "lock_acquire" THEN holder[op'.arg] ELSE op'.t

DonationIsSingleLevel ==
  (\/ op'.name \in {"thread_donate_priority", "thread_update_priority"}
   \/ op'.name = "lock_acquire" /\ holder[op'.arg] # NULL) =>
    /\ priority'[Recomputed] = RecomputedPriority(Recomputed)
    /\ Owned_locks'[Recomputed] = {} => priority'[Recomputed] = real_priority'[Recomputed]
    /\ \A u \in Tids \ {Recomputed} : priority'[u] = priority[u]
    /\ \A l \in DOMAIN lock_max :
         lock_max'[l] # lock_max[l] => op'.name = "lock_acquire" /\ l = op'.arg

\* C14: a recomputation sets the effective priority of its thread to
\* max(base, greatest max_waiter_priority of the locks the thread owns
\* directly), the base when it owns no lock, and changes no other thread: when
\* A holds L1, B holds L2 and waits for L1, and C waits for L2, the priority B
\* got from C is not passed on to A by donate_to(B) or recompute(B).
C14_SingleLevelDonation == [][DonationIsSingleLevel]_vars

\* donate_to(B) has just run with B elevated by C, a waiter of a lock B holds,
\* while B itself waits for a lock whose holder A is still below B.
C14_Witness ==
  /\ ~panic /\ op.name = "thread_donate_priority"
  /\ Waited_on_lock[op.t] # NoLock
  /\ holder[Waited_on_lock[op.t]] \notin {NULL, op.t}
  /\ priority[holder[Waited_on_lock[op.t]]] < priority[op.t]
  /\ lock_max[Waited_on_lock[op.t]] < priority[op.t]
  /\ priority[op.t] > real_priority[op.t]
  /\ \E l \in Owned_locks[op.t] : \E c \in Tids :
       Waited_on_lock[c] = l /\ status[c] = "BLOCKED" /\ priority[c] = priority[op.t]

\* The integer nearest to num / den for den > 0, halves away from zero.
RoundNearest(num, den) ==
  IF num >= 0 THEN (2 * num + den) \div (2 * den)
  ELSE -((2 * (-num) + den) \div (2 * den))

\* PRI_MAX - round(recent_cpu / 4) - 2 * nice, brought into PRI_MIN..PRI_MAX,
\* for a recent_cpu of rc / F.
MlfqsPriority(rc, n) ==
  LET p == PRI_MAX - RoundNearest(rc, 4 * F) - 2 * n
  IN MinOf({PRI_MAX, MaxOf({PRI_MIN, p}, PRI_MIN)})

\* The threads whose priority an operation derives again: the caller of
\* thread_set_nice, the thread thread_create makes, and every registered
\* thread on a tick that ends a second or a group of four ticks.
Derived ==
  IF op'.name = "thread_set_nice" THEN {cur}
  ELSE IF op'.name = "thread_create" THEN {op'.t}
  ELSE IF op'.name = "timer_interrupt" /\ (ticks' % 4 = 0 \/ ticks' % op'.arg = 0)
       THEN all_list
       ELSE {}

MlfqsPriorityInRange ==
  \A t \in Tids : priority[t] >= PRI_MIN /\ priority[t] <= PRI_MAX

MlfqsPriorityStep ==
  \A t \in Derived : priority'[t] = MlfqsPriority(recent_cpu'[t], nice'[t])

\* C15: in MLFQS mode every derivation of a priority gives
\* clamp(PRI_MAX - round_nearest(recent_cpu / 4) - 2 * nice, PRI_MIN, PRI_MAX),
\* and every thread's priority is within PRI_MIN..PRI_MAX after any sequence
\* of thread_set_nice, ticks and per-second recomputations.
C15_MlfqsPriorityFormula == []MlfqsPriorityInRange /\ [][MlfqsPriorityStep]_vars

\* A second has just ended with one thread held at PRI_MIN and another at
\* PRI_MAX by the clamp.
C15_Witness ==
  /\ ~panic /\ op.name = "timer_interrupt" /\ ticks = SecondTicks
  /\ \E t \in all_list : \E u \in all_list :
       /\ nice[t] = 40 /\ priority[t] = PRI_MIN
       /\ PRI_MAX - RoundNearest(recent_cpu[t], 4 * F) - 2 * nice[t] < PRI_MIN
       /\ nice[u] = -20 /\ priority[u] = PRI_MAX /\ recent_cpu[u] # 0
       /\ PRI_MAX - RoundNearest(recent_cpu[u], 4 * F) - 2 * nice[u] > PRI_MAX

\* The kernel as the per-second step of the tick being handled leaves it.
AfterPerSecondStep == thread_update_recent_cpu_and_load_avg(timer_interrupt_tick(K))

\* C20 as stated: when the per-second step returns, the ready list is in
\* non-increasing order of the priorities the step has just derived.
C20_PerSecondStepSortsReady ==
  [][(op'.name = "timer_interrupt" /\ ticks' % op'.arg = 0 /\ ~panic') =>
       \A i \in 1..Len(AfterPerSecondStep.ready_list) :
         \A j \in i..Len(AfterPerSecondStep.ready_list) :
           AfterPerSecondStep.priority[AfterPerSecondStep.ready_list[i]]
             >= AfterPerSecondStep.priority[AfterPerSecondStep.ready_list[j]]]_vars

\* The threads the per-second step counts: those of the ready list, and the
\* running thread unless it is the idle thread.
ReadyCount == Len(ready_list) + (IF cur # idle_thread THEN 1 ELSE 0)

\* load_avg is kept as a multiple of 1 / F.  Sixty times the new value is
\* 59 * load_avg + ready_count up to the truncation of the fixed-point
\* operations, which stays below 3 / F.
LoadAvgStep ==
  (op'.name = "timer_interrupt" /\ ticks' % op'.arg = 0 /\ ~panic') =>
    /\ 60 * load_avg' <= 59 * load_avg + int_to_real(ReadyCount)
    /\ 60 * load_avg' > 59 * load_avg + int_to_real(ReadyCount) - 60 * 3
    /\ ReadyCount = 1 => load_avg' >= load_avg

LoadAvgAtMostOne == load_avg >= int_to_real(0) /\ load_avg <= int_to_real(1)

\* C16: each per-second recomputation sets load_avg to
\* (59/60) * load_avg + (1/60) * ready_count, where ready_count is the size of
\* the ready list plus 1 if the running thread is not the idle thread; from
\* load_avg = 0 with a ready_count of 1 throughout, load_avg never decreases
\* and never exceeds 1.
C16_LoadAvgRecurrence == []LoadAvgAtMostOne /\ [][LoadAvgStep]_vars

\* A second has just ended with main alone (ready_count 1) and load_avg
\* within 180 / F, about 0.011, of 1.
C16_Witness ==
  /\ ~panic /\ op.name = "timer_interrupt" /\ ticks % TIMER_FREQ = 0
  /\ ready_list = <<>> /\ cur = initial_thread /\ idle_thread # NULL
  /\ load_avg > int_to_real(1) - 180 /\ load_avg <= int_to_real(1)

\* The kernel with the priorities the step gives.
WithNewPriorities == [K EXCEPT !.priority = priority']

\* The ready list with the running thread put back, as thread_yield does.
WithCaller(l) ==
  IF cur = idle_thread THEN l
  ELSE list_insert_ordered(l, cur, WithNewPriorities, "ComparePriority")

\* The ready list once the holder of lock l has taken a donation.
WithDonation(l) ==
  IF holder[l] # NULL /\ status[holder[l]] = "READY"
  THEN list_insert_ordered(list_remove(ready_list, holder[l]), holder[l],
                           WithNewPriorities, "ComparePriority")
  ELSE ready_list

\* The ready list as the step's call of schedule() finds it: as it was for a
\* thread that blocks or exits, with the lock's holder moved for a thread that
\* waits for a lock, with the caller put back for a thread that yields, and
\* with the new thread before that for thread_create and thread_start.
ListAtDispatch ==
  IF op'.name \in {"thread_block", "sema_down", "idle", "thread_sleep", "timer_sleep",
                   "thread_exit"}
  THEN ready_list
  ELSE IF op'.name = "lock_acquire"
  THEN WithDonation(op'.arg)
  ELSE IF op'.name = "thread_start"
       THEN list_insert_ordered(ready_list, next_tid, WithNewPriorities, "ComparePriority")
       ELSE IF op'.name = "thread_create"
            THEN WithCaller(list_insert_ordered(ready_list, op'.t, WithNewPriorities,
                                                "ComparePriority"))
            ELSE WithCaller(ready_list)

\* The step has gone through schedule().
Dispatches ==
  /\ ~panic'
  /\ \/ cur' # cur
     \/ op'.name \in {"thread_block", "sema_down", "idle", "thread_sleep", "timer_sleep",
                      "thread_exit", "thread_yield"}
     \/ op'.name = "intr_return" /\ op'.arg = 1

DispatchStep ==
  Dispatches =>
    IF ListAtDispatch = <<>>
    THEN cur' = idle_thread /\ ready_list' = <<>>
    ELSE cur' = Head(ListAtDispatch) /\ ready_list' = Tail(ListAtDispatch)
         /\ cur' # idle_thread

IdleNotReady == idle_thread # NULL => idle_thread \notin Range(ready_list)

\* C22: a dispatch runs the front of the ready list and removes it from the
\* list, and runs the idle thread exactly when the list is empty; from the
\* moment idle() has recorded itself the idle thread is never in the ready
\* list, whatever yields, ticks, blocks and unblocks of other threads follow.
C22_DispatchFrontOrIdle == []IdleNotReady /\ [][DispatchStep]_vars

\* The idle thread has just been preempted at the end of its time slice: it is
\* READY, a thread of the ready list has taken over, and the idle thread is
\* not in the list.
C22_Witness ==
  /\ ~panic /\ op.name = "intr_return" /\ op.arg = 1
  /\ op.by = idle_thread /\ cur # idle_thread
  /\ status[idle_thread] = "READY" /\ idle_thread \notin Range(ready_list)

\* The running thread never has TIME_SLICE ticks behind it outside the tick
\* handler, and inside it only with the yield on return requested.
SliceBounded ==
  /\ thread_ticks <= TIME_SLICE
  /\ thread_ticks >= TIME_SLICE => in_intr /\ yield_on_return
  /\ yield_on_return => in_intr

\* Some thread of the ready list has a higher priority than the running one.
SomeReadyOutranks == \E u \in Range(ready_list) : priority[u] > priority[cur]

SliceStep ==
  /\ (op'.name = "timer_interrupt" /\ ~panic') =>
       /\ thread_ticks' = thread_ticks + 1
       /\ yield_on_return' = (thread_ticks' >= TIME_SLICE)
       /\ cur' = cur /\ status'[cur] = "RUNNING" /\ in_intr'
  /\ Dispatches => thread_ticks' = 0
  /\ (op'.name = "intr_return" /\ yield_on_return /\ ~panic') =>
       /\ thread_ticks' = 0 /\ ~yield_on_return' /\ ~in_intr'
       /\ SomeReadyOutranks =>
            /\ cur' \in Range(ready_list) /\ priority[cur'] > priority[cur]
            /\ \A u \in Range(ready_list) : priority[u] <= priority[cur']
            /\ status'[cur'] = "RUNNING" /\ status'[cur] = "READY"

\* C21: every tick adds one to the slice counter, every dispatch resets it to
\* 0, and the tick on which it reaches TIME_SLICE asks for a yield on return
\* from the interrupt and switches nothing itself; so the running thread never
\* gets past TIME_SLICE ticks without the request, and on the return from that
\* tick a thread of the ready list that outranks it, the highest of them, runs.
C21_TimeSlicePreemption == []SliceBounded /\ [][SliceStep]_vars

\* The running thread has used up its slice while a thread that outranks it
\* was ready, and that thread runs now.
C21_Witness ==
  /\ ~panic /\ op.name = "intr_return" /\ op.arg = 1
  /\ cur # op.by /\ priority[cur] > op.pri /\ priority[op.by] = op.pri
  /\ status[op.by] = "READY" /\ op.by \in Range(ready_list)
  /\ thread_ticks = 0 /\ ticks >= TIME_SLICE

\* An operation called with interrupts enabled has failed an assertion.
FailsWithInterruptsOn == ~panic /\ panic' /\ intr_level = "ON" /\ ~in_intr

\* C23 as stated: the ready list, the sleeping list and the list of all
\* threads change with interrupts disabled only, so an operation entered with
\* interrupts enabled that does not disable them fails its assertion before
\* it has touched any of the three.
C23_CollectionsChangeWithInterruptsOff ==
  [][FailsWithInterruptsOn => UNCHANGED <<ready_list, sleeping_list, all_list>>]_vars

=============================================================================
